---- MODULE Spec2Model ----
(***************************************************************************)
(* The /mcp JSON-RPC endpoint of prophet_mcp (src/app.py) and its router,  *)
(* tool handler and forecast adapter (src/mcp_helper.py).                  *)
(*                                                                         *)
(* `calls` lists the functions of mcp_helper the request entered, `caught` *)
(* the type of the exception an except clause of mcp_endpoint caught.      *)
(*                                                                         *)
(* One HTTP request is one behaviour: Init draws the environment           *)
(* (MCP_TOKEN), the Authorization header and the request body, and the     *)
(* action mcp_endpoint computes the response exactly as the view function  *)
(* does, including every call it makes (handle_request, handle_tool_call,  *)
(* forecast_time_series).  The handler keeps no state between requests.    *)
(*                                                                         *)
(* A value is a pair <<tag, payload>>, x[1] its tag and x[2] its payload:  *)
(*   "absent"  the key is not in the JSON object                           *)
(*   "null"    JSON null (request side), "none" Python None                *)
(*   "str"     a string, its payload the text; "jsonstr" a string whose    *)
(*             text is the JSON encoding of the payload; "num" an integer; *)
(*             "list"; "obj" a dict <<"obj", fields, keys>>, x[3] its keys *)
(*             in insertion order                                          *)
(* Texts are TLA+ strings, read character by character where the code      *)
(* does (int(), repr()); their alphabet is printable ASCII and the         *)
(* escapes \t \n \f \r.  Two kinds of string are held by what they denote  *)
(* and not by their text: a header string as its " "-separated fields      *)
(* (str.split(' ') of the header) and a date string as <<format, day       *)
(* ordinal of 2021>>.                                                      *)
(***************************************************************************)
EXTENDS Integers, Sequences, FiniteSets, TLC

VARIABLES env_token, auth_header, body, response, calls, caught, pc

vars == <<env_token, auth_header, body, response, calls, caught, pc>>

-----------------------------------------------------------------------------
(* Bounds of the model *)

\* most " "-separated fields in an Authorization header
MaxFields == 3
\* longest ds / y series drawn for the forecast adapter
MaxLen == 3
\* largest explicit "periods" drawn
MaxPeriods == 2

-----------------------------------------------------------------------------
(* Values *)

Absent == <<"absent", 0>>
JNull == <<"null", 0>>
PyNone == <<"none", 0>>
Str(s) == <<"str", s>>
JsonStr(x) == <<"jsonstr", x>>
Num(n) == <<"num", n>>
List(q) == <<"list", q>>
\* a dict: its fields and its keys in insertion order
Dict(keys, r) == <<"obj", r, keys>>
\* the dict a JSON object parses to: `order` is the order of the keys in the
\* text, a field that is "absent" is not a key
Obj(order, r) ==
    LET IsKey(k) == r[k][1] # "absent"
    IN Dict(SelectSeq(order, IsKey), r)

\* JSON -> Python: null becomes None, everything else keeps its type
FromJson(x) == IF x[1] = "null" THEN PyNone ELSE x

\* Python -> JSON (flask.jsonify): None becomes null, str stays a string,
\* int stays a number
Jsonify(x) == IF x[1] = "none" THEN JNull ELSE x

\* dict.get(key, default) on a parsed JSON object
DictGet(d, key, default) ==
    IF key \notin DOMAIN d \/ d[key][1] = "absent" THEN default ELSE FromJson(d[key])

\* {}
EmptyDict == Dict(<<>>, [k \in {} |-> Absent])

IsStr(x) == x[1] \in {"str", "jsonstr"}

\* the characters of a text
Chars(s) == [i \in 1..Len(s) |-> SubSeq(s, i, i)]
Contains(s, c) == \E i \in 1..Len(s) : SubSeq(s, i, i) = c
\* s.startswith(prefix)
StartsWith(s, prefix) == Len(s) >= Len(prefix) /\ SubSeq(s, 1, Len(prefix)) = prefix

\* "".join(parts[lo..hi]) and "".join(parts)
RECURSIVE ConcatRange(_, _, _)
ConcatRange(parts, lo, hi) ==
    IF lo > hi THEN ""
    ELSE IF lo = hi THEN parts[lo]
         ELSE LET mid == (lo + hi) \div 2
              IN ConcatRange(parts, lo, mid) \o ConcatRange(parts, mid + 1, hi)
Concat(parts) == ConcatRange(parts, 1, Len(parts))

\* sep.join(parts)
Join(parts, sep) ==
    Concat([i \in 1..Len(parts) |-> IF i = 1 THEN parts[i] ELSE sep \o parts[i]])

SetMin(S) == CHOOSE x \in S : \A z \in S : x <= z
SetMax(S) == CHOOSE x \in S : \A z \in S : x >= z

\* repr(s) of a string: double quotes when the text holds ' and no ",
\* single quotes otherwise; backslash, the quote and control characters
\* are escaped
Quote(s) == IF Contains(s, "'") /\ ~Contains(s, "\"") THEN "\"" ELSE "'"
Escaped(c, q) ==
    CASE c = "\\" -> "\\\\"
      [] c = "\t" -> "\\t"
      [] c = "\n" -> "\\n"
      [] c = "\r" -> "\\r"
      [] c = "\f" -> "\\x0c"
      [] c = q -> "\\" \o q
      [] OTHER -> c
StrRepr(s) ==
    LET q == Quote(s)
    IN q \o Concat([i \in 1..Len(s) |-> Escaped(SubSeq(s, i, i), q)]) \o q

\* repr(x): a dict lists its items in insertion order; the text of a
\* "jsonstr" or of a date string is not held, and neither is drawn where
\* the code prints a value
RECURSIVE PyRepr(_)
PyRepr(x) ==
    CASE x[1] \in {"none", "null"} -> "None"
      [] x[1] = "num" -> ToString(x[2])
      [] x[1] = "str" -> StrRepr(x[2])
      [] x[1] = "list" ->
            "[" \o Join([i \in 1..Len(x[2]) |-> PyRepr(x[2][i])], ", ") \o "]"
      [] x[1] = "obj" ->
            "{" \o Join([i \in 1..Len(x[3]) |->
                            StrRepr(x[3][i]) \o ": " \o PyRepr(x[2][x[3][i]])], ", ")
                \o "}"

\* str(x) as an f-string interpolates it: a string is its own text, any
\* other value prints as its repr
PyStr(x) == IF x[1] = "str" THEN x[2] ELSE PyRepr(x)

\* type(x).__name__
PyTypeName(x) ==
    CASE x[1] \in {"none", "null"} -> "NoneType"
      [] x[1] = "num" -> "int"
      [] x[1] = "list" -> "list"
      [] x[1] \in {"str", "jsonstr"} -> "str"
      [] OTHER -> "dict"

\* outcomes of a call: a returned value or a raised exception, each with the
\* functions of mcp_helper entered on the way
Return(val, trace) == [raised |-> FALSE, val |-> val, trace |-> trace]
Raise(type, msg, trace) == [raised |-> TRUE, type |-> type, msg |-> msg, trace |-> trace]

\* x.get(...) on something that is not a dict
NoGet(x, trace) ==
    Raise("AttributeError", "'" \o PyTypeName(x) \o "' object has no attribute 'get'", trace)

RECURSIVE SeqsUpTo(_, _)
SeqsUpTo(S, n) ==
    IF n = 0 THEN {<<>>}
    ELSE LET shorter == SeqsUpTo(S, n - 1)
         IN shorter \cup {Append(q, x) : q \in {r \in shorter : Len(r) = n - 1}, x \in S}

-----------------------------------------------------------------------------
(* Forecast adapter: src/mcp_helper.py, forecast_time_series *)

\* the "default" of the periods argument
DefaultPeriods == 10

\* a date-only ISO string "YYYY-MM-DD" naming day k of 2021
DateStr(k) == Str(<<"%Y-%m-%d", k>>)
\* the same day written "MM/DD/YYYY"
AltDate(k) == Str(<<"%m/%d/%Y", k>>)
\* a string pandas cannot parse as a date
BadDate == Str(<<"not-a-date">>)
\* pd.Timestamp.max is 2262-04-11 and pd.Timestamp.min 1677-09-21: the last
\* and the first whole day of the count
LastDay == 88124
FirstDay == -125378
\* an ISO date string past pd.Timestamp.max
FarDate == DateStr(LastDay + 1)
\* pandas Timestamp (midnight of day k) and NaT
Ts(k) == <<"ts", k>>
NaT == <<"nat", 0>>

\* int(s) on a string: whitespace before it is skipped, one sign may lead,
\* then comes a run of decimal digits with single underscores between them;
\* a run of more digits than sys.get_int_max_str_digits() is refused, and
\* only whitespace may follow the run.  Of the characters int() skips, a
\* TLA+ string holds these five (not the vertical tab, nor those beyond
\* ASCII).
Whitespace == {" ", "\t", "\n", "\r", "\f"}
DigitChars == {ToString(n) : n \in 0..9}
DigitValue(c) == CHOOSE n \in 0..9 : ToString(n) = c
\* sys.int_info.default_max_str_digits
IntMaxStrDigits == 4300
\* "%.200R": the error message shows at most this much of repr(s)
ReprShown == 200

\* the positions of the characters that are not whitespace
Inked(cs) == {i \in 1..Len(cs) : cs[i] \notin Whitespace}
StripLeft(cs) ==
    IF Inked(cs) = {} THEN <<>> ELSE SubSeq(cs, SetMin(Inked(cs)), Len(cs))
StripRight(cs) ==
    IF Inked(cs) = {} THEN <<>> ELSE SubSeq(cs, 1, SetMax(Inked(cs)))

Strip(cs) == StripRight(StripLeft(cs))
HasSign(cs) == Len(Strip(cs)) > 0 /\ Head(Strip(cs)) \in {"+", "-"}
Unsigned(cs) == IF HasSign(cs) THEN Tail(Strip(cs)) ELSE Strip(cs)

\* the digits and underscores at the front of what follows the sign
DigitRun(cs) ==
    LET others == {i \in 1..Len(cs) : cs[i] \notin DigitChars \cup {"_"}}
    IN IF others = {} THEN cs ELSE SubSeq(cs, 1, SetMin(others) - 1)
DigitCount(ds) == Cardinality({i \in 1..Len(ds) : ds[i] \in DigitChars})

IsDecimal(ds) ==
    /\ Len(ds) > 0
    /\ \A i \in 1..Len(ds) : ds[i] \in DigitChars \cup {"_"}
    /\ ds[1] # "_" /\ ds[Len(ds)] # "_"
    /\ \A i \in 1..(Len(ds) - 1) : ~(ds[i] = "_" /\ ds[i + 1] = "_")

RECURSIVE DecimalValue(_)
DecimalValue(ds) ==
    IF Len(ds) = 0 THEN 0
    ELSE LET front == SubSeq(ds, 1, Len(ds) - 1)
             c == ds[Len(ds)]
         IN IF c = "_" THEN DecimalValue(front)
            ELSE 10 * DecimalValue(front) + DigitValue(c)

\* the run is well formed but too long: checked before what follows it
TooManyDigits(cs) ==
    LET run == DigitRun(Unsigned(cs))
    IN IsDecimal(run) /\ DigitCount(run) > IntMaxStrDigits

\* int(x): an int is kept, a string is read as a decimal literal, None, a
\* list or a dict raises TypeError, any other string ValueError
IntOk(x) ==
    \/ x[1] = "num"
    \/ /\ x[1] = "str"
       /\ IsDecimal(Unsigned(Chars(x[2])))
       /\ ~TooManyDigits(Chars(x[2]))
PyInt(x) ==
    IF x[1] = "num" THEN x[2]
    ELSE IF HasSign(Chars(x[2])) /\ Head(Strip(Chars(x[2]))) = "-"
         THEN 0 - DecimalValue(Unsigned(Chars(x[2])))
         ELSE DecimalValue(Unsigned(Chars(x[2])))
IntError(x) ==
    IF x[1] = "str"
    THEN IF TooManyDigits(Chars(x[2]))
         THEN Raise("ValueError",
                    "Exceeds the limit (" \o ToString(IntMaxStrDigits)
                    \o " digits) for integer string conversion: value has "
                    \o ToString(DigitCount(DigitRun(Unsigned(Chars(x[2])))))
                    \o " digits; use sys.set_int_max_str_digits() to increase the limit",
                    <<>>)
         ELSE LET shown == StrRepr(x[2])
              IN Raise("ValueError",
                       "invalid literal for int() with base 10: "
                       \o (IF Len(shown) > ReprShown THEN SubSeq(shown, 1, ReprShown)
                           ELSE shown),
                       <<>>)
    ELSE Raise("TypeError",
               "int() argument must be a string, a bytes-like object or a real number, not '"
               \o PyTypeName(x) \o "'",
               <<>>)

\* pd.DataFrame({'ds': ds, 'y': y}): lists must agree in length, a scalar
\* (here None) is broadcast over the other column, two scalars raise
Broadcast(x, n) == [i \in 1..n |-> x]
DataFrame(ds, y) ==
    CASE ds[1] = "list" /\ y[1] = "list" ->
            IF Len(ds[2]) = Len(y[2])
            THEN Return([ds |-> ds[2], y |-> y[2]], <<>>)
            ELSE Raise("ValueError", "All arrays must be of the same length", <<>>)
      [] ds[1] = "list" /\ y[1] # "list" ->
            Return([ds |-> ds[2], y |-> Broadcast(y, Len(ds[2]))], <<>>)
      [] ds[1] # "list" /\ y[1] = "list" ->
            Return([ds |-> Broadcast(ds, Len(y[2])), y |-> y[2]], <<>>)
      [] OTHER ->
            Raise("ValueError", "If using all scalar values, you must pass an index", <<>>)

\* pd.to_datetime on the column (errors='raise'): None and null become NaT;
\* the format is guessed from the first string and every string must be a
\* date of that format within the Timestamp range
IsNull(x) == x[1] \in {"none", "null"}
Parseable(x, format) ==
    \/ IsNull(x)
    \/ /\ x[1] = "str" /\ Len(x[2]) = 2
       /\ x[2][1] = format
       /\ x[2][2] >= FirstDay /\ x[2][2] <= LastDay
ToTimestamp(x) == IF IsNull(x) THEN NaT ELSE Ts(x[2][2])
\* the format of the first string of the column
GuessedFormat(col) ==
    LET strings == {i \in 1..Len(col) : ~IsNull(col[i])}
    IN IF strings = {} THEN "" ELSE col[SetMin(strings)][2][1]
\* the error of the first cell that does not parse
DatetimeError(x, format) ==
    IF Len(x[2]) # 2
    THEN IF format = x[2][1]
         THEN Raise("DateParseError", "Unknown datetime string format, unable to parse", <<>>)
         ELSE Raise("ValueError", "time data doesn't match format", <<>>)
    ELSE IF x[2][1] # format
         THEN Raise("ValueError", "time data doesn't match format", <<>>)
         ELSE Raise("OutOfBoundsDatetime", "Out of bounds nanosecond timestamp", <<>>)
ToDatetime(col) ==
    LET format == GuessedFormat(col)
        failing == {i \in 1..Len(col) : ~Parseable(col[i], format)}
    IN IF failing = {}
       THEN Return([i \in 1..Len(col) |-> ToTimestamp(col[i])], <<>>)
       ELSE DatetimeError(col[SetMin(failing)], format)

\* Timestamp.strftime("%Y-%m-%dT%H:%M:%S")
Strftime(ts) == Str(<<"%Y-%m-%dT%H:%M:%S", ts[2], 0, 0, 0>>)

RECURSIVE SortedSeq(_)
SortedSeq(S) ==
    IF S = {} THEN <<>>
    ELSE LET m == CHOOSE x \in S : \A z \in S : x <= z
         IN <<m>> \o SortedSeq(S \ {m})

\* the try block: Prophet().fit(df) raises on fewer than two rows with a
\* value or on a missing date, make_future_dataframe(periods=f) asks
\* pd.date_range for f + 1 dates and raises when that count is negative or
\* the last date lies beyond pd.Timestamp.max, and any other fit may still
\* fail inside the library (fit_ok)
FitRaises(dates, y, f, fit_ok) ==
    \/ Cardinality({i \in 1..Len(y) : y[i][1] = "num"}) < 2
    \/ \E i \in 1..Len(dates) : dates[i][1] = "nat"
    \/ f + 1 < 0
    \/ SetMax({dates[i][2] : i \in 1..Len(dates)}) + f > LastDay
    \/ ~fit_ok
FitMessage(dates, y, f) ==
    IF Cardinality({i \in 1..Len(y) : y[i][1] = "num"}) < 2
    THEN "Dataframe has less than 2 non-NaN rows."
    ELSE IF \E i \in 1..Len(dates) : dates[i][1] = "nat"
         THEN "Found NaN in column ds."
         ELSE IF f + 1 < 0
              THEN "Number of periods must be non-negative"
              ELSE IF SetMax({dates[i][2] : i \in 1..Len(dates)}) + f > LastDay
                   THEN "Cannot generate range"
                   ELSE "optimizer failure"

\* model.make_future_dataframe(periods=f): the distinct history dates in
\* increasing order, then f further days after the last one
MakeFutureDataframe(dates, f) ==
    LET days == {dates[i][2] : i \in 1..Len(dates)}
        last == SetMax(days)
    IN SortedSeq(days) \o [i \in 1..f |-> last + i]

\* variant: fit and predict outside any try, a failure propagates
ForecastOutput_Unguarded(dates, y, f, fit_ok) ==
    IF FitRaises(dates, y, f, fit_ok)
    THEN Raise("ValueError", FitMessage(dates, y, f), <<>>)
    ELSE LET future == MakeFutureDataframe(dates, f)
             days == {dates[i][2] : i \in 1..Len(dates)}
         IN Return(Dict(<<"meta", "forecast">>,
                        [meta |-> [f |-> f,
                                  n_history |-> Len(dates),
                                  start |-> Strftime(Ts(SetMin(days))),
                                  end |-> Strftime(Ts(SetMax(days)))],
                        forecast |-> [i \in 1..Len(future) |->
                                        [ds |-> Strftime(Ts(future[i])),
                                         yhat |-> "number",
                                         yhat_lower |-> "number",
                                         yhat_upper |-> "number"]]]), <<>>)

\* lines 124-145: fit and predict inside the try, then shape the output
ForecastOutput(dates, y, f, fit_ok) ==
    IF FitRaises(dates, y, f, fit_ok)
    THEN Return(Dict(<<"error">>, [error |-> FitMessage(dates, y, f)]), <<>>)
    ELSE LET future == MakeFutureDataframe(dates, f)
             days == {dates[i][2] : i \in 1..Len(dates)}
         IN Return(Dict(<<"meta", "forecast">>,
                        [meta |-> [f |-> f,
                                  n_history |-> Len(dates),
                                  start |-> Strftime(Ts(SetMin(days))),
                                  end |-> Strftime(Ts(SetMax(days)))],
                        forecast |-> [i \in 1..Len(future) |->
                                        [ds |-> Strftime(Ts(future[i])),
                                         yhat |-> "number",
                                         yhat_lower |-> "number",
                                         yhat_upper |-> "number"]]]), <<>>)

\* lines 121-145, once the frame is built
Forecast(df, f, fit_ok) ==
    IF df.raised THEN df
    ELSE LET dates == ToDatetime(df.val.ds)
         IN IF dates.raised THEN dates
            ELSE ForecastOutput(dates.val, df.val.y, f, fit_ok)

forecast_time_series(arguments, fit_ok) ==
    IF arguments[1] # "obj" THEN NoGet(arguments, <<>>)
    ELSE LET ds == DictGet(arguments[2], "ds", PyNone)
             y == DictGet(arguments[2], "y", PyNone)
             periods == DictGet(arguments[2], "periods", Num(DefaultPeriods))
         IN IF ~IntOk(periods) THEN IntError(periods)
            ELSE Forecast(DataFrame(ds, y), PyInt(periods), fit_ok)

-----------------------------------------------------------------------------
(* Tool invocation handler and method router: src/mcp_helper.py *)

TextContent(text) == <<[type |-> "text", text |-> text]>>

\* json.loads on a string: the decoded value, or a failure
JsonLoadsOk(x) == x[1] = "jsonstr"
JsonLoads(x) == FromJson(x[2])
\* json.dumps: the text encoding the value
JsonDumps(x) == JsonStr(x)

\* lines 86-89
InvalidArguments ==
    [isError |-> TRUE,
     content |-> TextContent("Invalid arguments: expected object or JSON string.")]

\* variant: the unknown-tool answer without the isError flag
ToolNotFound_NoFlag(tool_name) ==
    [content |-> TextContent("Tool not found: " \o PyStr(tool_name))]

\* lines 95-98
ToolNotFound(tool_name) ==
    [isError |-> TRUE,
     content |-> TextContent("Tool not found: " \o PyStr(tool_name))]

\* lines 92-93: the tool's data serialized into one text item; an exception
\* of the tool passes through
ToolContent(data) ==
    IF data.raised
    THEN Raise(data.type, data.msg, <<"handle_tool_call", "forecast_time_series">>)
    ELSE Return([content |-> TextContent(JsonDumps(data.val))],
                <<"handle_tool_call", "forecast_time_series">>)

handle_tool_call(params, fit_ok) ==
    IF params[1] # "obj" THEN NoGet(params, <<"handle_tool_call">>)
    ELSE LET tool_name == DictGet(params[2], "name", PyNone)
             given == DictGet(params[2], "arguments", EmptyDict)
         IN IF IsStr(given) /\ ~JsonLoadsOk(given)
            THEN Return(InvalidArguments, <<"handle_tool_call">>)
            ELSE IF tool_name = Str("forecast_time_series")
                 THEN ToolContent(forecast_time_series(
                                    IF IsStr(given) THEN JsonLoads(given) ELSE given, fit_ok))
                 ELSE Return(ToolNotFound(tool_name), <<"handle_tool_call">>)

handle_initialize ==
    [protocolVersion |-> "2024-11-05",
     serverInfo |-> [name |-> "prophet_mcp", version |-> "0.1.0"],
     capabilities |-> [tools |-> <<>>]]

handle_tools_list ==
    [tools |-> <<[name |-> "forecast_time_series",
                  annotations |-> [read_only |-> FALSE],
                  inputSchema |-> [type |-> "object",
                                   properties |-> {"ds", "y", "periods"},
                                   required |-> <<"ds", "y">>,
                                   additionalProperties |-> FALSE]]>>]

\* line 22: what handle_tool_call returns or raises is handle_request's own
Routed(r) ==
    IF r.raised
    THEN Raise(r.type, r.msg, <<"handle_request">> \o r.trace)
    ELSE Return(r.val, <<"handle_request">> \o r.trace)

handle_request(method, params, fit_ok) ==
    CASE method = Str("initialize") ->
            Return(handle_initialize, <<"handle_request">>)
      [] method = Str("tools/list") ->
            Return(handle_tools_list, <<"handle_request">>)
      [] method = Str("tools/call") -> Routed(handle_tool_call(params, fit_ok))
      [] OTHER ->
            Raise("ValueError", "Method not found: " \o PyStr(method), <<"handle_request">>)

-----------------------------------------------------------------------------
(* Transport / envelope layer: src/app.py, mcp_endpoint *)

JsonResponse(status, envelope) == [status |-> status, kind |-> "json", body |-> envelope]
\* return ("", 204)
NoContent == [status |-> 204, kind |-> "empty", body |-> <<>>]
\* an exception that leaves the view function: Flask answers 500 with its
\* own error page, not a JSON-RPC envelope
UnhandledException(e) == [status |-> 500, kind |-> "html", body |-> <<e.type, e.msg>>]

ErrorEnvelope(code, message, request_id) ==
    [jsonrpc |-> "2.0",
     error |-> [code |-> code, message |-> message],
     id |-> Jsonify(request_id)]
ResultEnvelope(result, request_id) ==
    [jsonrpc |-> "2.0", result |-> result, id |-> Jsonify(request_id)]

\* the object of the body, its keys in the order of the text
BodyObject(b) == Obj(<<"method", "params", "id">>, b.obj)

\* request.get_json(force=True): the parsed body, or BadRequest
get_json(b) ==
    CASE b.kind = "malformed" ->
            Raise("BadRequest", "400 Bad Request: Failed to decode JSON object", <<>>)
      [] b.kind = "null" -> Return(PyNone, <<>>)
      [] b.kind = "array" -> Return(List(<<BodyObject(b)>>), <<>>)
      [] OTHER -> Return(BodyObject(b), <<>>)

\* variant: any Bearer header passes, the token is not compared
AuthCheck_NoCompare(header, token) ==
    IF header[1] = "none" \/ header[2] = <<"">>
       \/ ~(Len(header[2]) >= 2 /\ header[2][1] = "Bearer")
    THEN "missing"
    ELSE "ok"

\* lines 54-77: "missing" and "invalid" are the two 401 answers
AuthCheck(header, token) ==
    IF header[1] = "none" \/ header[2] = <<"">>
       \/ ~(Len(header[2]) >= 2 /\ header[2][1] = "Bearer")
    THEN "missing"
    ELSE IF Str(header[2][2]) # token THEN "invalid" ELSE "ok"

MissingHeaderMessage == "Unauthorized: Missing or invalid Authorization header"
InvalidTokenMessage == "Unauthorized: Invalid MCP Auth token"

\* line 80
IsNotification(request_id) == request_id[1] = "none"

\* line 82: isinstance(method, str) and method.startswith("notifications/")
RecognizedNotification(method) ==
    /\ method[1] = "str"
    /\ StartsWith(method[2], "notifications/")

\* lines 80-87: both branches answer alike, they differ in the log line
NotificationResponse(method) ==
    IF RecognizedNotification(method) THEN NoContent ELSE NoContent

\* variant: a failed tools/call takes the protocol-level fallback too
DispatchFailure_ProtocolOnly(method, e, request_id) ==
    JsonResponse(200, ErrorEnvelope(-32603, "Internal error: " \o e.msg, request_id))

\* variant: the fallback answers with the JSON-RPC "method not found" code
DispatchFailure_MethodNotFound(method, e, request_id) ==
    IF method = Str("tools/call")
    THEN JsonResponse(200,
            ResultEnvelope([isError |-> TRUE,
                            content |-> TextContent("Internal tool error: " \o e.msg)],
                           request_id))
    ELSE JsonResponse(200,
            ErrorEnvelope(-32601, "Internal error: " \o e.msg, request_id))

\* lines 107-127
DispatchFailure(method, e, request_id) ==
    IF method = Str("tools/call")
    THEN JsonResponse(200,
            ResultEnvelope([isError |-> TRUE,
                            content |-> TextContent("Internal tool error: " \o e.msg)],
                           request_id))
    ELSE JsonResponse(200,
            ErrorEnvelope(-32603, "Internal error: " \o e.msg, request_id))

\* lines 89-127: the try around handle_request and its except clause
Dispatch(method, r, request_id) ==
    IF r.raised
    THEN [response |-> DispatchFailure(method, r, request_id),
          calls |-> r.trace, caught |-> r.type]
    ELSE [response |-> JsonResponse(200, ResultEnvelope(r.val, request_id)),
          calls |-> r.trace, caught |-> "none"]

\* lines 48-127, once the body has parsed to `data`
Handle(data, header, token, fit_ok) ==
    IF data[1] # "obj"
    THEN [response |-> UnhandledException(NoGet(data, <<>>)), calls |-> <<>>,
          caught |-> "none"]
    ELSE LET method == DictGet(data[2], "method", PyNone)
             params == DictGet(data[2], "params", EmptyDict)
             request_id == DictGet(data[2], "id", PyNone)
             auth == AuthCheck(header, token)
         IN CASE auth = "missing" ->
                    [response |-> JsonResponse(401,
                                    ErrorEnvelope(-32000, MissingHeaderMessage, request_id)),
                     calls |-> <<>>, caught |-> "none"]
              [] auth = "invalid" ->
                    [response |-> JsonResponse(401,
                                    ErrorEnvelope(-32000, InvalidTokenMessage, request_id)),
                     calls |-> <<>>, caught |-> "none"]
              [] OTHER ->
                    IF IsNotification(request_id)
                    THEN [response |-> NotificationResponse(method), calls |-> <<>>,
                          caught |-> "none"]
                    ELSE Dispatch(method, handle_request(method, params, fit_ok),
                                  request_id)

McpEndpoint(b, header, token, fit_ok) ==
    LET data == get_json(b)
    IN IF data.raised
       THEN [response |-> JsonResponse(200,
                            ErrorEnvelope(-32700, "Parse error: " \o data.msg, PyNone)),
             calls |-> <<>>, caught |-> data.type]
       ELSE Handle(data.val, header, token, fit_ok)

-----------------------------------------------------------------------------
(* Requests drawn by the specifications *)

\* the fields of an Authorization header: "" gives the empty header and
\* doubled spaces, "s" is the configured secret, "x" any other word
HeaderWords == {"", "Bearer", "s", "x"}
Headers == {PyNone} \cup {Str(f) : f \in SeqsUpTo(HeaderWords, MaxFields) \ {<<>>}}

\* os.getenv('MCP_TOKEN'): unset, or the secret
Tokens == {PyNone, Str("s")}

\* the object {"a": 1, "b": null} with its keys in either order
TwoKeys(order) == Obj(order, [a |-> Num(1), b |-> JNull])

Methods ==
    {Absent, Num(7),
     Str("initialize"), Str("tools/list"), Str("tools/call"),
     Str("notifications/initialized"), Str("ping"),
     TwoKeys(<<"a", "b">>), TwoKeys(<<"b", "a">>)}

Ids == {Absent, JNull, Num(0), Num(1), Str("1")}

\* tool names: a string or none, and names that are no string
ToolNames == {Absent, Str("forecast_time_series"), Str("nope")}
PrintedNames == {List(<<Num(1), Str("a")>>), TwoKeys(<<"a", "b">>), TwoKeys(<<"b", "a">>)}
Names == ToolNames \cup PrintedNames

Arguments(ds, y, periods) ==
    Obj(<<"ds", "y", "periods">>, [ds |-> ds, y |-> y, periods |-> periods])

\* every arguments object within the bounds
\* ds entries: two ISO dates, a date in another format, one past the
\* Timestamp range, a string that is no date, and null
DsEntries == {DateStr(1), DateStr(3), AltDate(2), FarDate, BadDate, JNull}
DsValues == {Absent} \cup {List(q) : q \in SeqsUpTo(DsEntries, MaxLen)}
YValues == {Absent} \cup {List(q) : q \in SeqsUpTo({Num(5)}, MaxLen)}
\* texts int() rejects and reads, and the integers -2 .. MaxPeriods
PeriodsTexts == {"abc", "a'b", "1_", "2", "10", "-1", " 2", "\r2\f", "-2"}
PeriodsValues ==
    {Absent, JNull} \cup {Str(s) : s \in PeriodsTexts} \cup {Num(n) : n \in (0 - 2)..MaxPeriods}
ArgumentObjects ==
    {Arguments(ds, y, p) : ds \in DsValues, y \in YValues, p \in PeriodsValues}

\* a few arguments of every JSON type, for the transport layer
TwoRows == Arguments(List(<<DateStr(3), DateStr(1)>>), List(<<Num(5), Num(5)>>), Absent)
SampleArguments ==
    {Absent, JNull, Str("{not json"), JsonStr(Num(5)), JsonStr(TwoRows), List(<<>>),
     Num(5), TwoRows, Arguments(List(<<>>), List(<<>>), Num(1)),
     Arguments(List(<<DateStr(1)>>), List(<<>>), Absent),
     Arguments(List(<<DateStr(1), DateStr(3)>>), List(<<Num(5), Num(5)>>), Str("abc"))}

ToolCall(name, arguments) ==
    Obj(<<"name", "arguments">>, [name |-> name, arguments |-> arguments])
SampleParams ==
    {Absent, JNull, List(<<>>)}
    \cup {ToolCall(n, a) : n \in ToolNames, a \in SampleArguments}
    \cup {ToolCall(n, a) : n \in PrintedNames, a \in {Absent, Num(5)}}

Request(method, id, params) == [method |-> method, id |-> id, params |-> params]
Body(kind, obj) == [kind |-> kind, obj |-> obj]
Bodies ==
    {Body(k, Request(Absent, Absent, Absent)) : k \in {"malformed", "null"}}
    \cup {Body("array", Request(m, i, Absent)) : m \in Methods, i \in Ids}
    \cup {Body("object", Request(m, i, p)) : m \in Methods, i \in Ids, p \in SampleParams}

NoResponse == [status |-> 0, kind |-> "none", body |-> <<>>]

-----------------------------------------------------------------------------
(* The state machine: one request, one response *)

Init ==
    /\ env_token \in Tokens
    /\ auth_header \in Headers
    /\ body \in Bodies
    /\ response = NoResponse
    /\ calls = <<>>
    /\ caught = "none"
    /\ pc = "received"

\* an authenticated tools/call carrying any arguments object of the bounds
InitTool ==
    /\ env_token = Str("s")
    /\ auth_header = Str(<<"Bearer", "s">>)
    /\ body \in {Body("object", Request(Str("tools/call"), Num(1), ToolCall(n, a))) :
                    n \in ToolNames \ {Absent}, a \in ArgumentObjects}
    /\ response = NoResponse
    /\ calls = <<>>
    /\ caught = "none"
    /\ pc = "received"

\* the response leaves the view function
Answer(out) ==
    /\ response' = out.response
    /\ calls' = out.calls
    /\ caught' = out.caught

mcp_endpoint ==
    /\ pc = "received"
    /\ \E fit_ok \in BOOLEAN : Answer(McpEndpoint(body, auth_header, env_token, fit_ok))
    /\ pc' = "responded"
    /\ UNCHANGED <<env_token, auth_header, body>>

Next == mcp_endpoint

Spec == Init /\ [][Next]_vars

SpecTool == InitTool /\ [][Next]_vars

-----------------------------------------------------------------------------
(* Vocabulary of the properties, read off the request and the response *)

Responded == pc = "responded"
ReqMethod == body.obj.method
ReqId == body.obj.id
ReqParams == body.obj.params
IdPresent == ReqId[1] \notin {"absent", "null"}
IsToolsCall == ReqMethod = Str("tools/call")

\* the header starts with "Bearer " and its token field is the secret
BearerTokenMatches ==
    /\ auth_header[1] = "str"
    /\ Len(auth_header[2]) >= 2
    /\ auth_header[2][1] = "Bearer"
    /\ Str(auth_header[2][2]) = env_token
HasBearerPrefix ==
    /\ auth_header[1] = "str"
    /\ Len(auth_header[2]) >= 2
    /\ auth_header[2][1] = "Bearer"

\* a JSON object body from a caller holding the secret
Authenticated == body.kind = "object" /\ BearerTokenMatches

IsEmpty204 == response.status = 204 /\ response.kind = "empty" /\ response.body = <<>>
IsEnvelope == response.kind = "json"
HasResult == IsEnvelope /\ "result" \in DOMAIN response.body
HasError == IsEnvelope /\ "error" \in DOMAIN response.body
Entered(fn) == \E i \in 1..Len(calls) : calls[i] = fn

IsUnauthorized(message) ==
    /\ response.status = 401
    /\ HasError
    /\ response.body.error.code = -32000
    /\ response.body.error.message = message

\* the request id as the envelope must carry it: same type, same value
SameId == IsEnvelope /\ response.body.id = ReqId

\* a request value as an error message shows it
Shown(x) ==
    CASE x[1] \in {"absent", "null"} -> "None"
      [] x[1] = "num" -> ToString(x[2])
      [] x = List(<<Num(1), Str("a")>>) -> "[1, 'a']"
      [] x = Dict(<<"a", "b">>, [a |-> Num(1), b |-> JNull]) -> "{'a': 1, 'b': None}"
      [] x = Dict(<<"b", "a">>, [a |-> Num(1), b |-> JNull]) -> "{'b': None, 'a': 1}"
      [] OTHER -> x[2]

\* the tool call of the request
ToolName == IF ReqParams[1] = "obj" THEN ReqParams[2].name ELSE Absent
ToolArguments == IF ReqParams[1] = "obj" THEN ReqParams[2].arguments ELSE Absent
ToolIsForecast == ToolName = Str("forecast_time_series")
ArgumentsGiven == ReqParams[2].arguments
ArgDs == ArgumentsGiven[2].ds
ArgY == ArgumentsGiven[2].y
ArgPeriods == ArgumentsGiven[2].periods

\* a tool result with isError true and one text item
IsToolError ==
    /\ HasResult
    /\ "isError" \in DOMAIN response.body.result
    /\ response.body.result.isError = TRUE
    /\ Len(response.body.result.content) = 1
    /\ response.body.result.content[1].type = "text"

\* the data handle_tool_call serialized into the single text item
ToolData == response.body.result.content[1].text[2]

\* ordinary tool output: one text item holding JSON, no isError key
IsOrdinaryOutput ==
    /\ response.status = 200
    /\ HasResult
    /\ DOMAIN response.body.result = {"content"}
    /\ Len(response.body.result.content) = 1
    /\ response.body.result.content[1].type = "text"
    /\ response.body.result.content[1].text[1] = "jsonstr"
    /\ ToolData[1] = "obj"
    /\ DOMAIN ToolData[2] \in {{"error"}, {"meta", "forecast"}}

\* ordinary output whose data is {error: message}
ReturnedError == IsOrdinaryOutput /\ DOMAIN ToolData[2] = {"error"}

\* the tool result the except clause of mcp_endpoint builds
InternalToolError(detail) ==
    [isError |-> TRUE,
     content |-> <<[type |-> "text", text |-> "Internal tool error: " \o detail]>>]

-----------------------------------------------------------------------------
(* C1 *)

\* C1: every request whose id is absent or null is answered 204 with an
\* empty body and no JSON-RPC envelope, whatever its method and its
\* Authorization header.
C1_AsClaimed ==
    (Responded /\ body.kind = "object" /\ ~IdPresent) =>
        (IsEmpty204 /\ ~IsEnvelope)

-----------------------------------------------------------------------------
(* C2 *)

\* C2: every JSON body that carries a non-null id, an object or an array
\* holding the request, gets exactly one envelope with that id, type kept.
C2_AsClaimed ==
    (Responded /\ body.kind \in {"object", "array"} /\ IdPresent) => SameId

-----------------------------------------------------------------------------
(* C3 *)

\* C3: for every body that parses, a missing or non-Bearer header gets 401
\* -32000 "Missing or invalid Authorization header", a Bearer header with
\* another token gets 401 -32000 "Invalid MCP Auth token", and dispatch is
\* reached only with the secret.
C3_AsClaimed ==
    (Responded /\ body.kind # "malformed") =>
        /\ ~HasBearerPrefix => IsUnauthorized(MissingHeaderMessage)
        /\ (HasBearerPrefix /\ ~BearerTokenMatches) => IsUnauthorized(InvalidTokenMessage)
        /\ (response.status # 401) => BearerTokenMatches

-----------------------------------------------------------------------------
(* C4 *)

\* the failures that leave the tool handler as isError: params that is not
\* an object, a string that is not JSON, an unknown tool, arguments that is
\* not an object, an exception leaving the tool
ToolCallFailure ==
    \/ ReqParams[1] \in {"null", "list"}
    \/ ReqParams[1] = "absent"
    \/ /\ ReqParams[1] = "obj"
       /\ \/ ArgumentsGiven[1] = "str"
          \/ ReqParams[2].name # Str("forecast_time_series")
          \/ ArgumentsGiven[1] \in {"null", "list", "num"}
          \/ ArgumentsGiven[1] = "jsonstr" /\ ArgumentsGiven[2][1] # "obj"
    \/ caught # "none"

\* an empty series with a periods that int() reads: fitting it raises
EmptySeries ==
    /\ ToolIsForecast
    /\ ArgumentsGiven[1] = "obj"
    /\ ArgDs = List(<<>>) /\ ArgY = List(<<>>)
    /\ ArgPeriods = Absent \/ ArgPeriods[1] = "num"

\* C4 as claimed: an authenticated tools/call with a non-null id is always
\* answered 200 with a result and no error field, and any failure, an
\* exception raised by fitting inside the tool included, is a tool result
\* with isError true and one text item.
C4_AsClaimed ==
    (Responded /\ Authenticated /\ IdPresent /\ IsToolsCall) =>
        /\ response.status = 200
        /\ HasResult
        /\ ~HasError
        /\ (ToolCallFailure \/ EmptySeries \/ ReturnedError) => IsToolError

\* C4 as amended: an authenticated tools/call with a non-null id is always
\* answered 200 with a result and no error field; each failure that leaves
\* the tool handler (params or arguments that is no object, a string that is
\* not JSON, an unknown tool, an exception leaving the tool) is a tool result
\* with isError true and one text item; an exception of fitting, as on an
\* empty series, is caught inside the tool and answered as ordinary output
\* {error: message} with no isError key.
C4_ToolFailuresInResult ==
    (Responded /\ Authenticated /\ IdPresent /\ IsToolsCall) =>
        /\ response.status = 200
        /\ HasResult
        /\ ~HasError
        /\ ToolCallFailure => IsToolError
        /\ EmptySeries => ReturnedError
        /\ ReturnedError =>
              (caught = "none" /\ "isError" \notin DOMAIN response.body.result)

C4_Witness ==
    /\ Responded /\ Authenticated /\ IdPresent /\ IsToolsCall
    /\ EmptySeries
    /\ ReturnedError
    /\ ~IsToolError

-----------------------------------------------------------------------------
(* C5 *)

\* C5: every response has status 204, 401 or 200, and a malformed body is
\* answered 200 with code -32700 and id null.
C5_AsClaimed ==
    Responded =>
        /\ response.status \in {200, 204, 401}
        /\ body.kind = "malformed" =>
              /\ response.status = 200
              /\ HasError
              /\ response.body.error.code = -32700
              /\ response.body.id = JNull

-----------------------------------------------------------------------------
(* C6 *)

\* an authenticated call of the forecast tool with an arguments object
ForecastCall ==
    /\ Responded /\ Authenticated /\ IdPresent /\ IsToolsCall
    /\ ToolIsForecast
    /\ ArgumentsGiven[1] = "obj"

PeriodsReadable ==
    \/ ArgPeriods = Absent
    \/ ArgPeriods[1] = "num"
    \/ ArgPeriods \in {Str("2"), Str("10"), Str("-1"), Str(" 2"), Str("\r2\f"),
                       Str("-2")}

\* the strings of ds are dates of one format within the Timestamp range;
\* null entries are let through
DatesAgree ==
    LET strings == {ArgDs[2][i] : i \in 1..Len(ArgDs[2])} \ {JNull}
    IN \/ strings \subseteq {DateStr(1), DateStr(3)}
       \/ strings \subseteq {AltDate(2)}

\* what the adapter needs in order to reach its try block
ReachesFit ==
    /\ PeriodsReadable
    /\ ArgDs[1] = "list" \/ ArgY[1] = "list"
    /\ (ArgDs[1] = "list" /\ ArgY[1] = "list") => Len(ArgDs[2]) = Len(ArgY[2])
    /\ ArgDs[1] = "list" => DatesAgree

-----------------------------------------------------------------------------
(* C7 *)

ForecastSucceeded ==
    /\ Responded /\ ToolIsForecast /\ ArgumentsGiven[1] = "obj"
    /\ IsOrdinaryOutput
    /\ "meta" \in DOMAIN ToolData[2]

Horizon ==
    CASE ArgPeriods = Absent -> 10
      [] ArgPeriods[1] = "num" -> ArgPeriods[2]
      [] ArgPeriods = Str("10") -> 10
      [] ArgPeriods = Str("-1") -> 0 - 1
      [] ArgPeriods = Str("-2") -> 0 - 2
      [] OTHER -> 2

HistoryDays == {ArgDs[2][i][2][2] : i \in 1..Len(ArgDs[2])}

\* the text "YYYY-MM-DDTHH:MM:SS" of midnight of day k
Midnight(k) == Str(<<"%Y-%m-%dT%H:%M:%S", k, 0, 0, 0>>)

\* C7: a successful forecast over n rows and horizon p carries
\* meta.periods = p, meta.n_history = n, meta.start / meta.end the least and
\* greatest historical date, and n + p forecast rows in non-decreasing ds
\* order.
C7_AsClaimed ==
    ForecastSucceeded =>
        LET meta == ToolData[2].meta
            rows == ToolData[2].forecast
        IN /\ "periods" \in DOMAIN meta
           /\ meta.periods = Horizon
           /\ meta.n_history = Len(ArgDs[2])
           /\ meta.start = Midnight(CHOOSE d \in HistoryDays : \A e \in HistoryDays : d <= e)
           /\ meta.end = Midnight(CHOOSE d \in HistoryDays : \A e \in HistoryDays : d >= e)
           /\ Len(rows) = Len(ArgDs[2]) + Horizon
           /\ \A i \in 1..(Len(rows) - 1) : rows[i].ds[2][2] <= rows[i + 1].ds[2][2]

-----------------------------------------------------------------------------
(* C8 *)

\* a tools/call that reaches the tool handler and names no registered tool;
\* no name can be read from params that is not an object
UnknownToolCall ==
    /\ Responded /\ Authenticated /\ IdPresent /\ IsToolsCall
    /\ ToolName # Str("forecast_time_series")

ExpectedToolNotFound ==
    [isError |-> TRUE,
     content |-> <<[type |-> "text", text |-> "Tool not found: " \o Shown(ToolName)]>>]
ExpectedInvalidArguments ==
    [isError |-> TRUE,
     content |-> <<[type |-> "text",
                    text |-> "Invalid arguments: expected object or JSON string."]>>]
\* params.get on null or on a list
ExpectedNoParams ==
    IF ReqParams[1] = "null"
    THEN InternalToolError("'NoneType' object has no attribute 'get'")
    ELSE InternalToolError("'list' object has no attribute 'get'")

\* C8 as claimed: an unknown tool name gets exactly the "Tool not found"
\* result, an unparseable string gets the invalid-arguments result, and the
\* lookup result is reached only when arguments is absent, an object or a
\* string that parses.
C8_AsClaimed ==
    UnknownToolCall =>
        /\ HasResult
        /\ ToolArguments[1] = "str" => response.body.result = ExpectedInvalidArguments
        /\ ToolArguments[1] \in {"absent", "obj", "jsonstr"} =>
              response.body.result = ExpectedToolNotFound
        /\ response.body.result = ExpectedToolNotFound =>
              ToolArguments[1] \in {"absent", "obj", "jsonstr"}

\* C8 as amended: when params is an object or absent, an unknown tool name
\* gets exactly the "Tool not found: <name>" result, <name> printed as
\* Python's str() prints it, whenever arguments is anything but a string
\* that fails to parse (absent, null, an object, a list, a number, a string
\* that parses), and the invalid-arguments result when it is such a string;
\* when params is null or a list no name is read and the result is the
\* "Internal tool error" tool result.
C8_UnknownTool ==
    UnknownToolCall =>
        /\ response.status = 200
        /\ HasResult
        /\ response.body.result =
              IF ReqParams[1] \in {"null", "list"} THEN ExpectedNoParams
              ELSE IF ToolArguments[1] = "str" THEN ExpectedInvalidArguments
                   ELSE ExpectedToolNotFound

C8_Witness ==
    /\ UnknownToolCall
    /\ ToolName = Dict(<<"b", "a">>, [a |-> Num(1), b |-> JNull])
    /\ ToolArguments = Num(5)
    /\ response.body.result.content[1].text = "Tool not found: {'b': None, 'a': 1}"

-----------------------------------------------------------------------------
(* C9 *)

RoutedMethods ==
    {Str("initialize"), Str("tools/list"), Str("tools/call")}

\* C9: an authenticated request with a non-null id and any other method is
\* answered 200 with error code -32603, message "Internal error: Method not
\* found: <method>", the request's id and no result.
C9_MethodNotFound ==
    (Responded /\ Authenticated /\ IdPresent /\ ReqMethod \notin RoutedMethods) =>
        /\ response.status = 200
        /\ HasError
        /\ ~HasResult
        /\ response.body.error.code = -32603
        /\ response.body.error.message =
              "Internal error: Method not found: " \o Shown(ReqMethod)
        /\ SameId
        /\ caught = "ValueError"

C9_Witness ==
    /\ Responded /\ Authenticated /\ IdPresent
    /\ ReqMethod = Dict(<<"b", "a">>, [a |-> Num(1), b |-> JNull])
    /\ HasError
    /\ response.body.error.code = -32603
    /\ response.body.error.message = "Internal error: Method not found: {'b': None, 'a': 1}"

-----------------------------------------------------------------------------
(* C10 *)

\* C10: the adapter runs only for a parsed, authenticated tools/call with a
\* non-null id naming forecast_time_series, and neither the router nor the
\* adapter is entered for an unauthenticated request or a notification.
C10_ForecastGuarded ==
    Responded =>
        /\ Entered("forecast_time_series") =>
              (Authenticated /\ IdPresent /\ IsToolsCall /\ ToolIsForecast)
        /\ calls # <<>> => (Authenticated /\ IdPresent)

C10_Witness ==
    /\ Responded
    /\ Entered("forecast_time_series")
    /\ HasResult
    /\ "isError" \notin DOMAIN response.body.result

====
